---- MODULE Spec2Model ----
(***************************************************************************)
(* A model of mkdocs-behave: the MkDocs plugin (plugin.py) that merges     *)
(* behave feature files into the site navigation, and the behave formatter *)
(* (featureformatter.py) that renders each feature as markdown.            *)
(*                                                                         *)
(* Strings are sequences of one-character strings, so that str.replace,    *)
(* str.capitalize, str.endswith and pathlib's suffix rules are computed    *)
(* rather than assumed.  A path string is kept split at "/": the record    *)
(* [dirs |-> <<segment, ...>>, file |-> segment].                          *)
(***************************************************************************)
EXTENDS Integers, Sequences, FiniteSets, TLC

VARIABLES
    nav,            \* the navigation tree mutated in place (config.nav / nav_tree)
    nav0,           \* history: the navigation tree before the last operation
    feature_tree,   \* the tree merged into the nav (built from disk, or an input)
    op,             \* the last operation that ran
    features_dir,   \* config.features_dir, relative to the working directory
    populate,       \* config.populate
    warn_missing,   \* config.warn_missing
    disk,           \* the *.feature files below features_dir
    handled,        \* BehavePlugin._handled_feature_files
    rendered,       \* FeatureFormatter.rendered_features (process-wide dict)
    written,        \* history: the keys of rendered set during this build pass
    log,            \* the warnings logged during this build pass
    files,          \* the Files collection returned by on_files
    exit_code,      \* SystemExit.code of the last behave run
    result,         \* the outcome of the last on_page_read_source
    fmt_filename,   \* FeatureFormatter._filename
    fmt_output,     \* FeatureFormatter._output (the lines written so far)
    fmt_feature     \* history: the feature last passed to FeatureFormatter.feature

vars == <<nav, nav0, feature_tree, op, features_dir, populate, warn_missing, disk,
          handled, rendered, written, log, files, exit_code, result,
          fmt_filename, fmt_output, fmt_feature>>

----------------------------------------------------------------------------
(* Characters and strings *)

\* The characters in use, in code point order.
Ascii ==
    <<" ", ".", "/", "A", "B", "C", "D", "E", "F", "G", "H", "I", "J", "K", "L", "M",
      "N", "O", "P", "Q", "R", "S", "T", "U", "V", "W", "X", "Y", "Z", "_",
      "a", "b", "c", "d", "e", "f", "g", "h", "i", "j", "k", "l", "m",
      "n", "o", "p", "q", "r", "s", "t", "u", "v", "w", "x", "y", "z">>

Ord(c) == CHOOSE i \in 1..Len(Ascii) : Ascii[i] = c

IsUpper(c) == Ord(c) >= Ord("A") /\ Ord(c) <= Ord("Z")
IsLower(c) == Ord(c) >= Ord("a") /\ Ord(c) <= Ord("z")

\* str.upper / str.lower on one character
Upper(c) == IF IsLower(c) THEN Ascii[Ord(c) - Ord("a") + Ord("A")] ELSE c
Lower(c) == IF IsUpper(c) THEN Ascii[Ord(c) - Ord("A") + Ord("a")] ELSE c

\* name.replace('_', ' ')
ReplaceUnderscores(s) == [i \in 1..Len(s) |-> IF s[i] = "_" THEN " " ELSE s[i]]

\* str.capitalize(): first character upper-cased, the rest lower-cased
Capitalize(s) == [i \in 1..Len(s) |-> IF i = 1 THEN Upper(s[i]) ELSE Lower(s[i])]

\* s.endswith(suffix)
EndsWith(s, suffix) ==
    /\ Len(s) >= Len(suffix)
    /\ SubSeq(s, Len(s) - Len(suffix) + 1, Len(s)) = suffix

\* s < t for strings: code point order, a proper prefix first
RECURSIVE StrLess(_, _)
StrLess(s, t) ==
    IF t = <<>> THEN FALSE
    ELSE IF s = <<>> THEN TRUE
    ELSE IF s[1] # t[1] THEN Ord(s[1]) < Ord(t[1])
    ELSE StrLess(Tail(s), Tail(t))

FEATURE == <<".", "f", "e", "a", "t", "u", "r", "e">>
MD == <<".", "m", "d">>

----------------------------------------------------------------------------
(* pathlib.  A Path and the string it prints as (str(path)) are the same   *)
(* record: parsing is where a string is normalised.                        *)

\* Path(s): the "." segments of a path string are dropped
RECURSIVE DropDots(_)
DropDots(segs) ==
    IF segs = <<>> THEN <<>>
    ELSE IF Head(segs) = <<".">> THEN DropDots(Tail(segs))
    ELSE <<Head(segs)>> \o DropDots(Tail(segs))

PathOf(s) == [dirs |-> DropDots(s.dirs), file |-> s.file]

\* path.parts
Parts(p) == p.dirs \o <<p.file>>

\* the index of the last "." of a name, 0 when there is none (str.rfind + 1)
RECURSIVE RFindDot(_)
RFindDot(name) ==
    IF name = <<>> THEN 0
    ELSE IF name[Len(name)] = "." THEN Len(name)
    ELSE RFindDot(SubSeq(name, 1, Len(name) - 1))

\* PurePath.suffix: from the last dot, unless that dot leads or ends the name
Suffix(p) ==
    LET i == RFindDot(p.file)
    IN  IF i > 1 /\ i < Len(p.file) THEN SubSeq(p.file, i, Len(p.file)) ELSE <<>>

\* PurePath.stem
Stem(p) == SubSeq(p.file, 1, Len(p.file) - Len(Suffix(p)))

\* PurePath.with_suffix(suffix): the old suffix replaced, or the new one appended
WithSuffix(p, suffix) == [dirs |-> p.dirs, file |-> Stem(p) \o suffix]

\* Paths order by their parts
RECURSIVE PartsLess(_, _)
PartsLess(a, b) ==
    IF b = <<>> THEN FALSE
    ELSE IF a = <<>> THEN TRUE
    ELSE IF a[1] # b[1] THEN StrLess(a[1], b[1])
    ELSE PartsLess(Tail(a), Tail(b))

PathLess(p, q) == PartsLess(Parts(p), Parts(q))

\* sorted(paths)
RECURSIVE Sorted(_)
Sorted(S) ==
    IF S = {} THEN <<>>
    ELSE LET m == CHOOSE p \in S : \A q \in S \ {p} : PathLess(p, q)
         IN  <<m>> \o Sorted(S \ {m})

----------------------------------------------------------------------------
(* NavTree = List[Union[str, Dict[str, NavTree]]] *)

Leaf(s) == [leaf |-> s]
Group(name, sub) == [name |-> name, sub |-> sub]
IsLeaf(e) == "leaf" \in DOMAIN e

\* next((entry[name] for entry in tree if isinstance(entry, dict) and name in entry), None):
\* the index of the first group of that name, 0 for None
RECURSIVE FindGroupFrom(_, _, _)
FindGroupFrom(tree, name, i) ==
    IF i > Len(tree) THEN 0
    ELSE IF ~IsLeaf(tree[i]) /\ tree[i].name = name THEN i
    ELSE FindGroupFrom(tree, name, i + 1)

FindGroup(tree, name) == FindGroupFrom(tree, name, 1)

\* element in nav_entry, for a string element
HasLeaf(tree, s) == \E i \in 1..Len(tree) : IsLeaf(tree[i]) /\ tree[i].leaf = s

----------------------------------------------------------------------------
(* BehavePlugin._merge_features_into_nav *)

\* name.replace('_', ' ').capitalize()
DisplayName(name) == Capitalize(ReplaceUnderscores(name))

AppendLeafAlways(nav_entry, s) == Append(nav_entry, Leaf(s))

\* if element not in nav_entry: nav_entry.append(element)
AppendLeaf(nav_entry, s) ==
    IF HasLeaf(nav_entry, s) THEN nav_entry ELSE Append(nav_entry, Leaf(s))

SubNavIndexRawName(nav_entry, name) == FindGroup(nav_entry, name)

\* the entry the sub-tree of a feature group is merged into: looked up by display name
SubNavIndex(nav_entry, name) == FindGroup(nav_entry, DisplayName(name))

NewGroupFirst(nav_entry, name, sub) == <<Group(DisplayName(name), sub)>> \o nav_entry

\* nav_entry.append({name: sub_tree})
NewGroup(nav_entry, name, sub) == Append(nav_entry, Group(DisplayName(name), sub))

\* merge(nav_entry, feature_entry): the elements of feature_entry, in order
RECURSIVE Merge(_, _)
Merge(nav_entry, feature_entry) ==
    IF feature_entry = <<>> THEN nav_entry
    ELSE LET element == Head(feature_entry)
             merged ==
                 IF IsLeaf(element) THEN AppendLeaf(nav_entry, element.leaf)
                 ELSE LET i == SubNavIndex(nav_entry, element.name)
                      IN  IF i = 0
                          THEN NewGroup(nav_entry, element.name, Merge(<<>>, element.sub))
                          ELSE [nav_entry EXCEPT ![i].sub = Merge(@, element.sub)]
         IN  Merge(merged, Tail(feature_entry))

----------------------------------------------------------------------------
(* BehavePlugin._get_feature_paths_in_nav and _rename_features_in_nav *)

\* element.endswith('.feature'), for a nav string
IsFeatureString(s) == EndsWith(s.file, FEATURE)

RECURSIVE GetFeatureStringsInNav(_)
GetFeatureStringsInNav(nav_entry) ==
    IF nav_entry = <<>> THEN <<>>
    ELSE LET element == Head(nav_entry)
             found == IF IsLeaf(element)
                      THEN (IF IsFeatureString(element.leaf) THEN <<element.leaf>> ELSE <<>>)
                      ELSE GetFeatureStringsInNav(element.sub)
         IN  found \o GetFeatureStringsInNav(Tail(nav_entry))

\* find(nav_entry): the Paths of the leaves ending in '.feature', in tree order
RECURSIVE GetFeaturePathsInNav(_)
GetFeaturePathsInNav(nav_entry) ==
    IF nav_entry = <<>> THEN <<>>
    ELSE LET element == Head(nav_entry)
             found == IF IsLeaf(element)
                      THEN (IF IsFeatureString(element.leaf)
                            THEN <<PathOf(element.leaf)>> ELSE <<>>)
                      ELSE GetFeaturePathsInNav(element.sub)
         IN  found \o GetFeaturePathsInNav(Tail(nav_entry))

\* str(Path(element).with_suffix('.md'))
RenamedLeaf(s) == WithSuffix(PathOf(s), MD)

\* process(nav_entry): every leaf ending in '.feature' replaced in place
RECURSIVE RenameFeaturesInNav(_)
RenameFeaturesInNav(nav_entry) ==
    [index \in 1..Len(nav_entry) |->
        LET element == nav_entry[index]
        IN  IF IsLeaf(element)
            THEN (IF IsFeatureString(element.leaf)
                  THEN Leaf(RenamedLeaf(element.leaf)) ELSE element)
            ELSE Group(element.name, RenameFeaturesInNav(element.sub))]

----------------------------------------------------------------------------
(* featureformatter.py.  The output is the sequence of the lines written    *)
(* (every write of the formatter ends its line); a line is the sequence of  *)
(* the string pieces it was put together from.                              *)

\* sep.join(items)
RECURSIVE Join(_, _)
Join(items, sep) ==
    IF items = <<>> THEN <<>>
    ELSE IF Len(items) = 1 THEN items[1]
    ELSE items[1] \o sep \o Join(Tail(items), sep)

\* the concatenation of a sequence of sequences
RECURSIVE Concat(_)
Concat(seqs) == IF seqs = <<>> THEN <<>> ELSE Head(seqs) \o Concat(Tail(seqs))

\* the text of a path: its parts joined by "/"
PathText(p) == Join(Parts(p), <<"/">>)

StartsWith(s, prefix) == Len(s) >= Len(prefix) /\ SubSeq(s, 1, Len(prefix)) = prefix

\* _strip_dots(lines)
StripDots(lines) ==
    [i \in 1..Len(lines) |->
        IF lines[i] = <<".">> \/ StartsWith(lines[i], <<".", " ">>)
        THEN SubSeq(lines[i], 3, Len(lines[i]))
        ELSE lines[i]]

\* FeatureFormatter.uri: the buffer after its two writes
UriLines(filename) ==
    << <<"<!-- Generated from ">> \o PathText(filename) \o <<" -->">>, <<>> >>

\* the admonition written for a tagged feature or scenario
TagLines(tags) ==
    IF tags = <<>> THEN <<>>
    ELSE << <<"!!! note">>,
            <<"    ">> \o Join([i \in 1..Len(tags) |-> <<"@">> \o tags[i]], <<" ">>),
            <<>> >>

\* the back-quote character, which a string of this language cannot hold
BACKQUOTE == "(backquote)"

\* re.sub: every double-quoted stretch of the name gets back-quotes inside its quotes.
\* A name is a sequence of pieces, each quote a piece of its own.
RECURSIVE QuoteCode(_)
QuoteCode(name) ==
    IF \A i \in 1..Len(name) : name[i] # "\""  THEN name
    ELSE LET i == CHOOSE k \in 1..Len(name) :
                      name[k] = "\"" /\ \A m \in 1..(k - 1) : name[m] # "\""
             rest == SubSeq(name, i + 1, Len(name))
         IN  IF \A k \in 1..Len(rest) : rest[k] # "\"" THEN name
             ELSE LET j == CHOOSE k \in 1..Len(rest) :
                               rest[k] = "\"" /\ \A m \in 1..(k - 1) : rest[m] # "\""
                  IN  SubSeq(name, 1, i - 1) \o <<"\"", BACKQUOTE>> \o SubSeq(rest, 1, j - 1)
                          \o <<BACKQUOTE, "\"">> \o QuoteCode(SubSeq(rest, j + 1, Len(rest)))

\* the plugin's step_highlight option, compiled: pattern/language pairs in order.
\* A pattern is one piece of text and matches a name that holds the piece.
StepHighlightRegexes == << [pattern |-> "JSON", language |-> <<"json">>] >>

\* FeatureFormatter._guess_code_language
GuessCodeLanguage(step_name) ==
    LET hits == {k \in 1..Len(StepHighlightRegexes) :
                    \E i \in 1..Len(step_name) : step_name[i] = StepHighlightRegexes[k].pattern}
    IN  IF hits = {} THEN <<>>
        ELSE StepHighlightRegexes[CHOOSE k \in hits : \A m \in hits : k <= m].language

\* FeatureFormatter.format_step
FormatStep(step) ==
    << <<"**">> \o step.keyword \o <<"** ">> \o QuoteCode(step.name) \o <<"  ">> >>
        \o (IF step.text # <<>>
            THEN << <<>>, <<BACKQUOTE, BACKQUOTE, BACKQUOTE>> \o GuessCodeLanguage(step.name), step.text, <<BACKQUOTE, BACKQUOTE, BACKQUOTE>> >>
            ELSE <<>>)

FormatSteps(steps) == Concat([i \in 1..Len(steps) |-> FormatStep(steps[i])])

\* FeatureFormatter.format_background
FormatBackground(background) ==
    << <<"## Background">>, <<>> >> \o FormatSteps(background.steps)

\* ('#### Examples' + f': {examples.name}' if examples.name else ''): the conditional
\* expression binds weaker than +, so it chooses between the whole heading and ''
ExamplesHeading(examples) ==
    IF examples.name # <<>> THEN <<"#### Examples">> \o <<": ">> \o examples.name ELSE <<>>

\* one row of an examples table, every cell in back-quotes
RowLine(row) ==
    <<"|">> \o Join([i \in 1..Len(row) |-> <<BACKQUOTE>> \o row[i] \o <<BACKQUOTE>>], <<"|">>) \o <<"|">>

\* the lines written for one examples table
ExamplesLines(examples) ==
    << ExamplesHeading(examples),
       <<"|">> \o Join(examples.headings, <<"|">>) \o <<"|">>,
       Concat([i \in 1..Len(examples.headings) |-> <<"|--">>]) \o <<"|">> >>
        \o [i \in 1..Len(examples.rows) |-> RowLine(examples.rows[i])]
        \o << <<>> >>

\* FeatureFormatter.format_scenario
FormatScenario(scenario) ==
    << <<"### ">> \o scenario.name >>
        \o TagLines(scenario.tags)
        \o FormatSteps(scenario.steps)
        \o << <<>> >>
        \o (IF scenario.outline
            THEN Concat([i \in 1..Len(scenario.examples) |-> ExamplesLines(scenario.examples[i])])
            ELSE <<>>)

\* FeatureFormatter.feature: the lines it writes
FeatureLines(feature) ==
    << <<"# ">> \o feature.name >>
        \o TagLines(feature.tags)
        \o StripDots(feature.description)
        \o << <<>> >>
        \o (IF feature.background.present THEN FormatBackground(feature.background) ELSE <<>>)
        \o << <<"## Scenarios">> >>
        \o Concat([i \in 1..Len(feature.scenarios) |-> FormatScenario(feature.scenarios[i])])

\* rendered_features[filename] = text
SetItem(dict, key, value) ==
    [k \in DOMAIN dict \cup {key} |-> IF k = key THEN value ELSE dict[k]]

\* self._output.close()
Closed == << <<"(closed)">> >>

----------------------------------------------------------------------------
(* Sample strings *)

features == <<"f", "e", "a", "t", "u", "r", "e", "s">>
docs == <<"d", "o", "c", "s">>
group == <<"g", "r", "o", "u", "p">>
my_dir == <<"m", "y", "_", "d", "i", "r">>
My_dir == <<"M", "y", " ", "d", "i", "r">>
Features == <<"F", "e", "a", "t", "u", "r", "e", "s">>

File(dirs, stem, suffix) == [dirs |-> dirs, file |-> stem \o suffix]

----------------------------------------------------------------------------
(* BehavePlugin: the tree of the files on disk, the heading, the virtual files *)

\* feature_path.parent.parts[1:]
ParentPartsAfterFirst(feature_path) == SubSeq(feature_path.dirs, 2, Len(feature_path.dirs))

\* the inner loop of _build_feature_tree: the groups of the parts are found by their
\* own names, or appended, and the path is appended below them
RECURSIVE InsertFeature(_, _, _)
InsertFeature(working_tree, parts, feature_path) ==
    IF parts = <<>> THEN Append(working_tree, Leaf(feature_path))
    ELSE LET i == FindGroup(working_tree, Head(parts))
         IN  IF i = 0
             THEN Append(working_tree,
                         Group(Head(parts), InsertFeature(<<>>, Tail(parts), feature_path)))
             ELSE [working_tree EXCEPT ![i].sub = InsertFeature(@, Tail(parts), feature_path)]

\* _build_feature_tree(feature_paths), onto the tree built so far
RECURSIVE BuildFeatureTreeFrom(_, _)
BuildFeatureTreeFrom(tree, feature_paths) ==
    IF feature_paths = <<>> THEN tree
    ELSE BuildFeatureTreeFrom(
             InsertFeature(tree, ParentPartsAfterFirst(Head(feature_paths)), Head(feature_paths)),
             Tail(feature_paths))

BuildFeatureTree(feature_paths) == BuildFeatureTreeFrom(<<>>, feature_paths)

\* nav_heading = config_options.Type(str, default='Features')
nav_heading == Features

\* _ensure_features_entry: the nav with the heading appended when it has none
EnsureFeaturesEntry(nav_tree, heading) ==
    IF FindGroup(nav_tree, heading) = 0 THEN Append(nav_tree, Group(heading, <<>>))
    ELSE nav_tree

\* dest_uri=f'{feature_path.parent / feature_path.stem}/index.html'
DestUri(feature_path) ==
    [dirs |-> feature_path.dirs \o <<Stem(feature_path)>>,
     file |-> <<"i", "n", "d", "e", "x", ".", "h", "t", "m", "l">>]

\* _build_feature_files(site_dir, feature_paths)
BuildFeatureFiles(feature_paths) ==
    [i \in 1..Len(feature_paths) |->
        [path |-> WithSuffix(feature_paths[i], MD),
         dest_uri |-> DestUri(feature_paths[i]),
         inclusion |-> "INCLUDED"]]

\* the elements of a sequence
Range(seq) == {seq[i] : i \in 1..Len(seq)}

----------------------------------------------------------------------------
(* BehavePlugin._run_behave: behave formats the files it reaches, then exits *)

\* the feature behave parses from a file: nothing but its name
ParsedFeature(filename) ==
    [name |-> filename.file, tags |-> <<>>, description |-> <<>>,
     background |-> [present |-> FALSE, steps |-> <<>>], scenarios |-> <<>>]

\* the buffer of a file when eof() is called: uri(), then feature()
Document(filename) == UriLines(filename) \o FeatureLines(ParsedFeature(filename))

\* a file behave gave up on after uri(): eof() is never called, and only eof() sets
\* the entry of rendered_features
Unfinished(dict, filename, output) == dict

\* the files behave formats to their end, in order: eof() sets each entry
RECURSIVE FormatAll(_, _)
FormatAll(dict, filenames) ==
    IF filenames = <<>> THEN dict
    ELSE FormatAll(SetItem(dict, Head(filenames), Document(Head(filenames))), Tail(filenames))

\* SystemExit.code: None, or the integer behave exits with
None == <<"None">>
ExitCodes == {None, <<"int", 0>>, <<"int", 1>>}

IsNotNone(code) == code # None

\* if e.code: neither None nor 0
Truthy(code) == code # None /\ code[2] # 0

\* except SystemExit as e: if e.code: log.warning(...)
BehaveWarning(code) ==
    IF Truthy(code)
    THEN << [warning |-> "Behave did not complete successfully. Some features may not have been processed."] >>
    ELSE <<>>

\* the warning of a file that is on disk and not in the nav
MissingWarning(missing) ==
    [warning |-> "Feature file is present on disk, but is not included in the 'nav' configuration.",
     path |-> missing]

OutsideWarning ==
    [warning |-> "Feature files are present in the 'nav' configuration outside the configured heading."]

----------------------------------------------------------------------------
(* The merge on its own: any destination tree, any source tree *)

MaxNavNodes == 2
MaxFeatureNodes == 3

\* "a.feature" and "a.md"; a directory name as found on disk and its display name
MergeLeaves == {File(<<>>, <<"a">>, FEATURE), File(<<>>, <<"a">>, MD)}
MergeNames == {<<"x", "_", "Y">>, <<"X", " ", "y">>}

\* the trees of exactly n nodes (leaves and groups) over the given leaves and names
RECURSIVE TreesOfSize(_, _, _)
RECURSIVE ElementsOfSize(_, _, _)
TreesOfSize(n, leaves, names) ==
    IF n = 0 THEN {<<>>}
    ELSE UNION {{<<e>> \o t : e \in ElementsOfSize(k, leaves, names),
                              t \in TreesOfSize(n - k, leaves, names)} : k \in 1..n}
ElementsOfSize(k, leaves, names) ==
    (IF k = 1 THEN {Leaf(s) : s \in leaves} ELSE {})
        \cup {Group(name, sub) : name \in names, sub \in TreesOfSize(k - 1, leaves, names)}

TreesUpTo(n, leaves, names) == UNION {TreesOfSize(k, leaves, names) : k \in 0..n}

Idle ==
    /\ features_dir = <<>> /\ populate = TRUE /\ warn_missing = TRUE /\ disk = {}
    /\ handled = {} /\ rendered = <<>> /\ written = <<>> /\ log = <<>> /\ files = <<>>
    /\ exit_code = None /\ result = <<>>
    /\ fmt_filename = <<>> /\ fmt_output = <<>> /\ fmt_feature = <<>>

pluginVars == <<features_dir, populate, warn_missing, disk, handled, rendered, written,
                log, files, exit_code, result>>
formatterVars == <<fmt_filename, fmt_output, fmt_feature>>

InitMerge ==
    /\ nav \in TreesUpTo(MaxNavNodes, MergeLeaves, MergeNames)
    /\ feature_tree \in TreesUpTo(MaxFeatureNodes, MergeLeaves, MergeNames)
    /\ nav0 = nav
    /\ op = "init"
    /\ Idle

\* _merge_features_into_nav(nav_tree, feature_tree)
MergeFeaturesIntoNav ==
    /\ nav' = Merge(nav, feature_tree)
    /\ nav0' = nav
    /\ op' = "merge"
    /\ UNCHANGED <<feature_tree, pluginVars, formatterVars>>

NextMerge == MergeFeaturesIntoNav

SpecMerge == InitMerge /\ [][NextMerge]_vars

\* the groups of one level that carry the name
GroupCount(tree, name) ==
    Cardinality({i \in 1..Len(tree) : ~IsLeaf(tree[i]) /\ tree[i].name = name})

\* at every level, at most one group entry per group name
RECURSIVE NoDuplicateGroups(_)
NoDuplicateGroups(tree) ==
    \A i \in 1..Len(tree) :
        IsLeaf(tree[i]) \/
            (GroupCount(tree, tree[i].name) = 1 /\ NoDuplicateGroups(tree[i].sub))

\* at every level, what was there before is a prefix of what is there after (a group
\* keeps its name and place, its sub-tree extended likewise), and a leaf that was
\* appended is not a leaf that was already at that level
RECURSIVE Extends(_, _)
Extends(before, after) ==
    /\ Len(before) <= Len(after)
    /\ \A i \in 1..Len(before) :
           IF IsLeaf(before[i]) THEN after[i] = before[i]
           ELSE /\ ~IsLeaf(after[i])
                /\ after[i].name = before[i].name
                /\ Extends(before[i].sub, after[i].sub)
    /\ \A i \in (Len(before) + 1)..Len(after) :
           IF IsLeaf(after[i]) THEN ~HasLeaf(SubSeq(after, 1, i - 1), after[i].leaf)
           ELSE Extends(<<>>, after[i].sub)

\* the number of leaves and groups of a tree
RECURSIVE Nodes(_)
Nodes(tree) ==
    IF tree = <<>> THEN 0
    ELSE (IF IsLeaf(Head(tree)) THEN 1 ELSE 1 + Nodes(Head(tree).sub)) + Nodes(Tail(tree))

\* C1: merging the same source tree into the result of a merge changes nothing:
\* merge(merge(T1, T2), T2) = merge(T1, T2), no leaf and no group is appended.
C1_MergeIdempotent == op = "merge" => Merge(nav, feature_tree) = nav

\* a merge that did append leaves and groups, at the top level and inside a group
C1_Witness ==
    /\ op = "merge"
    /\ Nodes(nav) >= Nodes(nav0) + 2
    /\ \E i \in 1..Len(nav0) : ~IsLeaf(nav0[i]) /\ nav[i] # nav0[i]

C9_MergeOnlyAppends ==
    /\ [](op = "merge" => Extends(nav0, nav))
    /\ [][feature_tree' = feature_tree]_vars

\* a merge into a non-empty destination that skipped a leaf already there and
\* appended another
C9_Witness ==
    /\ op = "merge"
    /\ nav0 # <<>>
    /\ Len(nav) > Len(nav0)
    /\ \E i \in 1..Len(feature_tree) :
           IsLeaf(feature_tree[i]) /\ HasLeaf(nav0, feature_tree[i].leaf)
    /\ \E i \in 1..Len(feature_tree) :
           IsLeaf(feature_tree[i]) /\ ~HasLeaf(nav0, feature_tree[i].leaf)

----------------------------------------------------------------------------
(* The suffix rewrite on its own: any tree under the heading *)

MaxRenameNodes == 3

\* features/a.feature, features/.feature, features/.feature.feature, features/a.md
RenameLeaves ==
    {File(<<features>>, <<"a">>, FEATURE), File(<<features>>, <<>>, FEATURE),
     File(<<features>>, FEATURE, FEATURE), File(<<features>>, <<"a">>, MD)}
RenameNames == {group}

InitRename ==
    /\ nav \in TreesUpTo(MaxRenameNodes, RenameLeaves, RenameNames)
    /\ nav0 = nav
    /\ feature_tree = <<>>
    /\ op = "init"
    /\ Idle

\* _rename_features_in_nav(nav_tree)
RenameFeatures ==
    /\ nav' = RenameFeaturesInNav(nav)
    /\ nav0' = nav
    /\ op' = "rename"
    /\ UNCHANGED <<feature_tree, pluginVars, formatterVars>>

NextRename == RenameFeatures

SpecRename == InitRename /\ [][NextRename]_vars

\* the leaves of a tree, in tree order
RECURSIVE LeavesOf(_)
LeavesOf(tree) ==
    IF tree = <<>> THEN <<>>
    ELSE (IF IsLeaf(Head(tree)) THEN <<Head(tree).leaf>> ELSE LeavesOf(Head(tree).sub))
             \o LeavesOf(Tail(tree))

\* a tree with every leaf blanked: its groups, their names and every position
RECURSIVE Skeleton(_)
Skeleton(tree) ==
    [i \in 1..Len(tree) |->
        IF IsLeaf(tree[i]) THEN Leaf(<<>>) ELSE Group(tree[i].name, Skeleton(tree[i].sub))]

\* C3: the suffix rewrite is a bijection on the leaves of the sub-tree: a leaf ending
\* in .feature is replaced in place by a leaf ending in .md of the same directory
\* and stem, distinct .feature leaves give distinct .md leaves, and no other leaf,
\* group name or position is altered.
C3_RewriteIsBijection ==
    op = "rename" =>
        LET old == LeavesOf(nav0)
            new == LeavesOf(nav)
        IN  /\ Skeleton(nav) = Skeleton(nav0)
            /\ Len(new) = Len(old)
            /\ \A i \in 1..Len(old) :
                   IF IsFeatureString(old[i])
                   THEN /\ EndsWith(new[i].file, MD)
                        /\ new[i].dirs = PathOf(old[i]).dirs
                        /\ Stem(new[i]) = Stem(old[i])
                   ELSE new[i] = old[i]
            /\ \A i, j \in 1..Len(old) :
                   (IsFeatureString(old[i]) /\ IsFeatureString(old[j]) /\ old[i] # old[j])
                       => new[i] # new[j]

----------------------------------------------------------------------------
(* The formatter on its own: behave formats one feature file *)

MaxExamples == 2
MaxRows == 2

SeqsUpTo(S, n) == UNION {[1..k -> S] : k \in 0..n}

\* examples tables: named or not, one or two columns, up to MaxRows rows
SampleTables ==
    {[name |-> name, headings |-> headings,
      rows |-> [r \in 1..n |-> [c \in 1..Len(headings) |-> <<"1">>]]] :
        name \in {<<>>, <<"sizes">>},
        headings \in {<< <<"n">> >>, << <<"n">>, <<"m">> >>},
        n \in 0..MaxRows}

SampleSteps ==
    {<<>>,
     << [keyword |-> <<"Given">>, name |-> <<"a ", "\"", "JSON", "\"", " body">>,
         text |-> <<"{}">>],
        [keyword |-> <<"Then">>, name |-> <<"it is ", "\"", "ok">>, text |-> <<>>] >>}

\* a plain scenario has no examples; an outline has its tables
SampleScenarios ==
    {[name |-> <<"s">>, tags |-> tags, steps |-> steps, outline |-> FALSE, examples |-> <<>>] :
        tags \in {<<>>, << <<"slow">> >>}, steps \in SampleSteps}
    \cup
    {[name |-> <<"s">>, tags |-> tags, steps |-> steps, outline |-> TRUE, examples |-> examples] :
        tags \in {<<>>, << <<"slow">> >>}, steps \in SampleSteps,
        examples \in SeqsUpTo(SampleTables, MaxExamples)}

SampleFeatures ==
    {[name |-> <<"f">>, tags |-> tags, description |-> description,
      background |-> [present |-> present, steps |-> steps],
      scenarios |-> <<scenario>>] :
        tags \in {<<>>, << <<"smoke">>, <<"slow">> >>},
        description \in {<<>>, << <<"I", "n", "t", "r", "o">>, <<".">>,
                                   <<".", " ", "e", "s", "c", "a", "p", "e", "d">> >>},
        present \in BOOLEAN,
        steps \in {<< [keyword |-> <<"Given">>, name |-> <<"a site">>, text |-> <<>>] >>},
        scenario \in SampleScenarios}

FormatFile == File(<<features>>, <<"a">>, FEATURE)

InitFormat ==
    /\ nav = <<>> /\ nav0 = <<>> /\ feature_tree = <<>>
    /\ op = "init"
    /\ Idle

\* FeatureFormatter.uri(filename)
Uri ==
    /\ op = "init"
    /\ fmt_filename' = FormatFile
    /\ fmt_output' = UriLines(FormatFile)
    /\ op' = "uri"
    /\ UNCHANGED <<nav, nav0, feature_tree, pluginVars, fmt_feature>>

\* FeatureFormatter.feature(feature)
Feature ==
    /\ op = "uri"
    /\ \E feature \in SampleFeatures :
           /\ fmt_output' = fmt_output \o FeatureLines(feature)
           /\ fmt_feature' = feature
    /\ op' = "feature"
    /\ UNCHANGED <<nav, nav0, feature_tree, pluginVars, fmt_filename>>

\* FeatureFormatter.eof()
Eof ==
    /\ op = "feature"
    /\ rendered' = SetItem(rendered, fmt_filename, fmt_output)
    /\ written' = Append(written, fmt_filename)
    /\ fmt_output' = Closed
    /\ op' = "eof"
    /\ UNCHANGED <<nav, nav0, feature_tree, features_dir, populate, warn_missing, disk,
                   handled, log, files, exit_code, result, fmt_filename, fmt_feature>>

NextFormat == Uri \/ Feature \/ Eof

SpecFormat == InitFormat /\ [][NextFormat]_vars

\* the lines the claim has an examples table rendered as
ClaimedExamplesLines(examples) ==
    << <<"#### Examples">> \o (IF examples.name # <<>> THEN <<": ">> \o examples.name ELSE <<>>),
       <<"|">> \o Join(examples.headings, <<"|">>) \o <<"|">>,
       Concat([i \in 1..Len(examples.headings) |-> <<"|--">>]) \o <<"|">> >>
        \o [i \in 1..Len(examples.rows) |->
               <<"|">> \o Join([c \in 1..Len(examples.rows[i]) |->
                                   <<BACKQUOTE>> \o examples.rows[i][c] \o <<BACKQUOTE>>],
                               <<"|">>) \o <<"|">>]
        \o << <<>> >>

\* C6: an outline is rendered with, for every examples table in order, an Examples
\* heading (the table's name appended when it has one, the bare heading when it has
\* none), the header row, the separator row and one row per example row, every cell
\* in inline-code markers.
C6_OutlineExamples ==
    (op = "feature" /\ fmt_feature.scenarios[Len(fmt_feature.scenarios)].outline) =>
        LET scenario == fmt_feature.scenarios[Len(fmt_feature.scenarios)]
        IN  EndsWith(fmt_output,
                     Concat([i \in 1..Len(scenario.examples) |->
                                ClaimedExamplesLines(scenario.examples[i])]))

----------------------------------------------------------------------------
(* The plugin through its build passes: on_files, then on_page_read_source for  *)
(* the pages, and under "mkdocs serve" the next pass with the configuration     *)
(* loaded again, the files on disk changed and rendered_features kept.          *)

Roots == {<<features>>, <<docs, features>>}

\* the files there may be below the root: a.feature, c.feature and group/b.feature
\* below features, a.feature and group/b.feature below docs/features
DiskUniverse(root) ==
    {File(root, <<"a">>, FEATURE), File(root \o <<group>>, <<"b">>, FEATURE)}
        \cup (IF Len(root) = 1 THEN {File(root, <<"c">>, FEATURE)} ELSE {})

IndexPage == File(<<>>, <<"i", "n", "d", "e", "x">>, MD)

\* the nav of mkdocs.yml: none; the heading with a.feature; the heading with a
\* group and "./<root>/c.feature"; a page and a feature outside the heading
NavChoices(root) ==
    {<<>>,
     <<Group(nav_heading, <<Leaf(File(root, <<"a">>, FEATURE))>>)>>,
     <<Group(nav_heading,
             <<Group(DisplayName(group), <<Leaf(File(root \o <<group>>, <<"b">>, FEATURE))>>),
               Leaf(File(<< <<".">> >> \o root, <<"c">>, FEATURE))>>)>>,
     <<Leaf(IndexPage), Group(docs, <<Leaf(File(root, <<"a">>, FEATURE))>>)>>}

Init ==
    /\ features_dir \in Roots
    /\ populate \in BOOLEAN
    /\ warn_missing \in BOOLEAN
    /\ nav \in NavChoices(features_dir)
    /\ disk \in SUBSET DiskUniverse(features_dir)
    /\ nav0 = nav
    /\ feature_tree = <<>>
    /\ op = "init"
    /\ handled = {} /\ rendered = <<>> /\ written = <<>> /\ log = <<>> /\ files = <<>>
    /\ exit_code = None /\ result = <<>>
    /\ fmt_filename = <<>> /\ fmt_output = <<>> /\ fmt_feature = <<>>

\* on_files(files, config): behave exits with code after formatting the files in
\* reached to their end and giving up on the file in aborted, if any
OnFiles ==
    /\ op \in {"init", "reload"}
    /\ \E code \in ExitCodes, reached \in SUBSET disk, aborted \in SUBSET disk :
        /\ aborted \cap reached = {}
        /\ Cardinality(aborted) <= 1
        /\ BehaveWarning(code) = <<>> => (reached = disk /\ aborted = {})
        /\ LET nav_tree == EnsureFeaturesEntry(nav, nav_heading)
               h == FindGroup(nav_tree, nav_heading)
               features_entry == nav_tree[h].sub
               all_feature_paths == Sorted(disk)
               feature_paths ==
                   IF populate THEN all_feature_paths
                   ELSE GetFeaturePathsInNav(features_entry)
               built == IF populate THEN BuildFeatureTree(feature_paths) ELSE <<>>
               merged == IF populate THEN Merge(features_entry, built) ELSE features_entry
               missing ==
                   IF ~populate /\ warn_missing
                   THEN Sorted(disk \ Range(feature_paths)) ELSE <<>>
               renamed == [nav_tree EXCEPT ![h].sub = RenameFeaturesInNav(merged)]
               outside ==
                   IF GetFeaturePathsInNav(renamed) # <<>> THEN <<OutsideWarning>> ELSE <<>>
               formatted == FormatAll(rendered, Sorted(reached))
           IN  /\ rendered' =
                      IF aborted = {} THEN formatted
                      ELSE LET filename == CHOOSE f \in aborted : TRUE
                           IN  Unfinished(formatted, filename, UriLines(filename))
               /\ written' = written \o Sorted(reached)
               /\ exit_code' = code
               /\ nav' = renamed
               /\ nav0' = nav
               /\ feature_tree' = built
               /\ log' = log \o BehaveWarning(code)
                             \o [i \in 1..Len(missing) |-> MissingWarning(missing[i])]
                             \o outside
               /\ files' = files \o BuildFeatureFiles(feature_paths)
               /\ handled' = {WithSuffix(feature_path, MD) : feature_path \in Range(feature_paths)}
    /\ op' = "on_files"
    /\ UNCHANGED <<features_dir, populate, warn_missing, disk, result, formatterVars>>

LookupOrEmpty(dict, key) ==
    IF key \in DOMAIN dict THEN [kind |-> "text", text |-> dict[key]]
    ELSE [kind |-> "text", text |-> <<>>]

\* ConfiguredFeatureFormatter.rendered_features[feature_path]
Lookup(dict, key) ==
    IF key \in DOMAIN dict THEN [kind |-> "text", text |-> dict[key]]
    ELSE [kind |-> "KeyError", text |-> <<>>]

\* on_page_read_source(page, config)
OnPageReadSource ==
    /\ op \in {"on_files", "read"}
    /\ \E src_uri \in {files[i].path : i \in 1..Len(files)} \cup {IndexPage} :
           result' =
               IF src_uri \in handled
               THEN LET feature_path == WithSuffix(PathOf(src_uri), FEATURE)
                        found == Lookup(rendered, feature_path)
                    IN  [page |-> src_uri, kind |-> found.kind, text |-> found.text]
               ELSE [page |-> src_uri, kind |-> "None", text |-> <<>>]
    /\ op' = "read"
    /\ UNCHANGED <<nav, nav0, feature_tree, features_dir, populate, warn_missing, disk,
                   handled, rendered, written, log, files, exit_code, formatterVars>>

\* "mkdocs serve" starts the next build pass: mkdocs.yml is loaded again, the files
\* on disk may have changed, the process and its rendered_features live on
Reload ==
    /\ op \in {"on_files", "read"}
    /\ nav' \in NavChoices(features_dir)
    /\ nav0' = nav'
    /\ disk' \in SUBSET DiskUniverse(features_dir)
    /\ feature_tree' = <<>>
    /\ written' = <<>> /\ log' = <<>> /\ files' = <<>> /\ result' = <<>>
    /\ op' = "reload"
    /\ UNCHANGED <<features_dir, populate, warn_missing, handled, rendered, exit_code,
                   formatterVars>>

Next == OnFiles \/ OnPageReadSource \/ Reload

Spec == Init /\ [][Next]_vars

\* the sub-tree of the heading, empty when the nav has no heading
HeadingSub(tree) ==
    LET h == FindGroup(tree, nav_heading) IN IF h = 0 THEN <<>> ELSE tree[h].sub

\* the directory segments of a path strictly below the configured root
BelowRoot(p) == SubSeq(p.dirs, Len(features_dir) + 1, Len(p.dirs))

\* the leaf is a direct child of the group reached from the tree by the chain of names
RECURSIVE UnderChain(_, _, _)
UnderChain(tree, chain, s) ==
    IF chain = <<>> THEN HasLeaf(tree, s)
    ELSE \E i \in 1..Len(tree) :
            /\ ~IsLeaf(tree[i])
            /\ tree[i].name = Head(chain)
            /\ UnderChain(tree[i].sub, Tail(chain), s)

\* C2: on_files with populate: every file on disk is, as an .md leaf, under the
\* heading below exactly the groups named by the display names of its directory
\* segments strictly below the configured root (a file in the root is a direct child
\* of the heading; no group stands for a segment of the root).  features/a.feature
\* and features/group/b.feature with no nav give
\* Features -> [features/a.md, {Group: [features/group/b.md]}].
C2_PopulateGroupsBelowRoot ==
    (op = "on_files" /\ populate) =>
        /\ \A p \in disk :
               UnderChain(HeadingSub(nav),
                          [i \in 1..Len(BelowRoot(p)) |-> DisplayName(BelowRoot(p)[i])],
                          WithSuffix(p, MD))
        /\ (/\ features_dir = <<features>>
            /\ nav0 = <<>>
            /\ disk = {File(<<features>>, <<"a">>, FEATURE),
                       File(<<features, group>>, <<"b">>, FEATURE)})
             => nav = <<Group(Features,
                              <<Leaf(File(<<features>>, <<"a">>, MD)),
                                Group(DisplayName(group),
                                      <<Leaf(File(<<features, group>>, <<"b">>, MD))>>)>>)>>

\* the .feature leaves under the heading, as the Paths they name
FeaturePathsUnderHeading(tree) ==
    {PathOf(s) : s \in {t \in Range(LeavesOf(HeadingSub(tree))) : IsFeatureString(t)}}

IsMissingWarning(w) == "path" \in DOMAIN w
IsBehaveWarning(w) == w \in Range(BehaveWarning(<<"int", 1>>))

\* what C4 says of the handled set and of the warnings
C4_ActiveSetAndWarnings ==
    /\ handled = {WithSuffix(p, MD) : p \in FeaturePathsUnderHeading(nav0)}
    /\ SelectSeq(log, IsMissingWarning) =
           IF warn_missing
           THEN LET missing == Sorted(disk \ FeaturePathsUnderHeading(nav0))
                IN  [i \in 1..Len(missing) |-> MissingWarning(missing[i])]
           ELSE <<>>
    /\ (/\ features_dir = <<features>>
        /\ warn_missing
        /\ nav0 = <<Group(Features, <<Leaf(File(<<features>>, <<"a">>, FEATURE))>>)>>
        /\ disk = {File(<<features>>, <<"a">>, FEATURE), File(<<features>>, <<"c">>, FEATURE)})
         => /\ SelectSeq(log, IsMissingWarning)
                   = <<MissingWarning(File(<<features>>, <<"c">>, FEATURE))>>
            /\ handled = {File(<<features>>, <<"a">>, MD)}

\* C4 as claimed: on_files without populate: the handled set is the rewritten paths
\* of the .feature leaves already under the heading, no entry is added to the nav,
\* and with warn_missing one warning is logged per file on disk that is not among
\* those leaves, in sorted order (none without warn_missing).
C4_NoPopulateAddsNoEntry ==
    (op = "on_files" /\ ~populate) =>
        /\ C4_ActiveSetAndWarnings
        /\ Skeleton(nav) = Skeleton(nav0)

\* C4 as amended: the same, but for the heading: a nav that has no heading gets the
\* empty heading group appended, and no other entry is added.
C4_NoPopulateAddsOnlyHeading ==
    (op = "on_files" /\ ~populate) =>
        /\ C4_ActiveSetAndWarnings
        /\ Skeleton(nav) =
               IF FindGroup(nav0, nav_heading) # 0 THEN Skeleton(nav0)
               ELSE Append(Skeleton(nav0), Group(nav_heading, <<>>))

\* the scenario of the claim: a.feature under the heading, c.feature on disk as well
C4_Witness ==
    /\ op = "on_files" /\ ~populate /\ warn_missing
    /\ features_dir = <<features>>
    /\ nav0 = <<Group(Features, <<Leaf(File(<<features>>, <<"a">>, FEATURE))>>)>>
    /\ disk = {File(<<features>>, <<"a">>, FEATURE), File(<<features>>, <<"c">>, FEATURE)}
    /\ Len(SelectSeq(log, IsMissingWarning)) = 1
    /\ nav = <<Group(Features, <<Leaf(File(<<features>>, <<"a">>, MD))>>)>>

\* C5: a page whose source path is handled, after behave exited non-zero without
\* ever producing the text of its feature file: the request fails with KeyError; it
\* returns neither empty content nor None.
C5_LookupFailure ==
    (/\ op = "read"
     /\ result.page \in handled
     /\ exit_code \notin {None, <<"int", 0>>}
     /\ WithSuffix(PathOf(result.page), FEATURE) \notin DOMAIN rendered)
        => result.kind = "KeyError"

C5_Witness ==
    /\ op = "read"
    /\ result.page \in handled
    /\ exit_code = <<"int", 1>>
    /\ WithSuffix(PathOf(result.page), FEATURE) \notin DOMAIN rendered
    /\ WithSuffix(PathOf(result.page), FEATURE) \in disk
    /\ result.kind = "KeyError"

\* C7: a non-zero exit of behave is not fatal: on_files logs exactly one warning that
\* features may be unprocessed and still ensures the heading, merges, rewrites,
\* makes the virtual files and returns the file set; a zero or absent exit status
\* logs no such warning.
C7_BehaveFailureNotFatal ==
    op = "on_files" =>
        /\ Len(SelectSeq(log, IsBehaveWarning)) =
               IF exit_code \in {None, <<"int", 0>>} THEN 0 ELSE 1
        /\ FindGroup(nav, nav_heading) # 0
        /\ GetFeaturePathsInNav(HeadingSub(nav)) = <<>>
        /\ populate => \A p \in disk : WithSuffix(p, MD) \in Range(LeavesOf(HeadingSub(nav)))
        /\ {files[i].path : i \in 1..Len(files)} = handled
        /\ populate => Len(files) = Cardinality(disk)

\* behave exited with 1 before any file was formatted, and the nav was still filled
C7_Witness ==
    /\ op = "on_files"
    /\ exit_code = <<"int", 1>>
    /\ Len(SelectSeq(log, IsBehaveWarning)) = 1
    /\ populate /\ nav0 = <<>> /\ Cardinality(disk) = 2
    /\ written = <<>>
    /\ Len(files) = 2
    /\ Len(LeavesOf(HeadingSub(nav))) = 2

\* how often a key was written in this pass
TimesWritten(key) == Cardinality({i \in 1..Len(written) : written[i] = key})

\* C10: a read of a handled path that returns text returns the complete document
\* that was written exactly once, at end-of-file, earlier in the same pass: no read
\* observes a partial document or one that was not produced in the current pass.
C10_ReadsDocumentOfCurrentPass ==
    (op = "read" /\ result.page \in handled /\ result.kind = "text") =>
        /\ TimesWritten(WithSuffix(PathOf(result.page), FEATURE)) = 1
        /\ result.text = Document(WithSuffix(PathOf(result.page), FEATURE))

\* What holds of rendered_features in every pass: an entry is only ever the complete
\* document, it is set at most once in a pass, only by on_files and never during a
\* read; a handled path is read as the entry it has, of whatever pass, or fails.
RenderedEntriesComplete ==
    /\ [](/\ \A key \in DOMAIN rendered : rendered[key] = Document(key)
          /\ \A key \in Range(written) : TimesWritten(key) = 1 /\ key \in DOMAIN rendered
          /\ (op = "read" /\ result.page \in handled) =>
                 LET key == WithSuffix(PathOf(result.page), FEATURE)
                 IN  IF key \in DOMAIN rendered
                     THEN result.kind = "text" /\ result.text = Document(key)
                     ELSE result.kind = "KeyError")
    /\ [][rendered' # rendered => op' = "on_files"]_vars
    /\ [][op' = "read" => (rendered' = rendered /\ written' = written)]_vars

====
